---- MODULE Spec2Model ----
(***************************************************************************)
(* Model of the tourism backend's site-admin / event / booking lifecycle:  *)
(* the relational store (tables and foreign keys of the init migration),   *)
(* the uploads directory, and the request handlers createSiteAdminWithSite,*)
(* deleteSiteAdmin, createEvent, updateEvent and deleteEvent.  A handler   *)
(* is a process that advances one awaited store call at a time; an         *)
(* interactive transaction is one atomic step that commits all of its      *)
(* statements or none.                                                     *)
(***************************************************************************)
EXTENDS Integers, FiniteSets, Sequences, TLC

VARIABLES db, files, reqs, nextId, cwd

vars == <<db, files, reqs, nextId, cwd>>

(***************************************************************************)
(* Bounds of the model.                                                    *)
(***************************************************************************)
\* creations in one behaviour: an aggregate of user, site and admin counts as
\* one, and so does each event, image, booking and favorite
MaxOps == 3

\* in-flight request slots
Reqs == {1, 2}

(***************************************************************************)
(* Schema: enumerations and NULL.                                          *)
(***************************************************************************)
NULL == 0

Roles == {"TOURIST", "GUIDE", "SITE_ADMIN", "SUPER_ADMIN"}

BookingStatuses == {"PENDING", "CONFIRMED", "COMPLETED", "CANCELED"}

\* a filter that forgets CONFIRMED
ActiveStatusesPendingOnly == {"PENDING"}

\* the statuses deleteEvent's query filters on
ActiveStatuses == {"PENDING", "CONFIRMED"}

(***************************************************************************)
(* Errors a store call throws.                                             *)
(***************************************************************************)
NoErr == ""

Thrown(code) == [ok |-> FALSE, code |-> code]

Ok(d) == [ok |-> TRUE, db |-> d]

(***************************************************************************)
(* Store statements.  Each takes the store contents d and returns either   *)
(* Ok(d') or Thrown(code): P2002 unique constraint, P2003 foreign key      *)
(* constraint, P2025 record not found.                                     *)
(***************************************************************************)
UserCreate(d, row) ==
    IF \E u \in d.users : u.email = row.email
    THEN Thrown("P2002")
    ELSE Ok([d EXCEPT !.users = @ \cup {row}])

SiteCreate(d, sid) == Ok([d EXCEPT !.sites = @ \cup {sid}])

AdminCreate(d, row) ==
    IF \E a \in d.admins : a.userId = row.userId \/ a.siteId = row.siteId
    THEN Thrown("P2002")
    ELSE IF row.userId \notin {u.id : u \in d.users} \/ row.siteId \notin d.sites
    THEN Thrown("P2003")
    ELSE Ok([d EXCEPT !.admins = @ \cup {row}])

SiteImageCreateMany(d, rows) ==
    IF \E i \in rows : i.siteId \notin d.sites
    THEN Thrown("P2003")
    ELSE Ok([d EXCEPT !.siteImages = @ \cup rows])

\* event.deleteMany({where: {siteAdminId}}): EventImage and Booking restrict
EventDeleteManyByAdmin(d, aid) ==
    LET gone == {e.id : e \in {x \in d.events : x.adminId = aid}} IN
    IF \E i \in d.eventImages : i.eventId \in gone
    THEN Thrown("P2003")
    ELSE IF \E b \in d.bookings : b.eventId \in gone
    THEN Thrown("P2003")
    ELSE Ok([d EXCEPT !.events = {e \in @ : e.id \notin gone}])

\* event.delete({where: {id}})
EventDelete(d, eid) ==
    IF eid \notin {e.id : e \in d.events}
    THEN Thrown("P2025")
    ELSE IF \E i \in d.eventImages : i.eventId = eid
    THEN Thrown("P2003")
    ELSE IF \E b \in d.bookings : b.eventId = eid
    THEN Thrown("P2003")
    ELSE Ok([d EXCEPT !.events = {e \in @ : e.id # eid}])

SiteImageDeleteMany(d, sid) ==
    Ok([d EXCEPT !.siteImages = {i \in @ : i.siteId # sid}])

FavoriteDeleteMany(d, sid) ==
    Ok([d EXCEPT !.favorites = {f \in @ : f.siteId # sid}])

\* touristicSiteAdmin.delete: Event.siteAdminId is ON DELETE SET NULL
AdminDelete(d, aid) ==
    IF aid \notin {a.id : a \in d.admins}
    THEN Thrown("P2025")
    ELSE Ok([d EXCEPT
               !.admins = {a \in @ : a.id # aid},
               !.events = {IF e.adminId = aid THEN [e EXCEPT !.adminId = NULL] ELSE e
                             : e \in @}])

\* touristicSite.delete: admin, images and events restrict, favorites cascade
SiteDelete(d, sid) ==
    IF sid \notin d.sites
    THEN Thrown("P2025")
    ELSE IF \/ \E a \in d.admins : a.siteId = sid
            \/ \E i \in d.siteImages : i.siteId = sid
            \/ \E e \in d.events : e.siteId = sid
    THEN Thrown("P2003")
    ELSE Ok([d EXCEPT !.sites = @ \ {sid},
                      !.favorites = {f \in @ : f.siteId # sid}])

\* user.delete: guide, admin and booking restrict, favorites cascade
UserDelete(d, uid) ==
    IF uid \notin {u.id : u \in d.users}
    THEN Thrown("P2025")
    ELSE IF \/ \E g \in d.guides : g.userId = uid
            \/ \E a \in d.admins : a.userId = uid
            \/ \E b \in d.bookings : b.touristId = uid
    THEN Thrown("P2003")
    ELSE Ok([d EXCEPT !.users = {u \in @ : u.id # uid},
                      !.favorites = {f \in @ : f.userId # uid}])

(***************************************************************************)
(* Interactive transaction.  rs is the sequence of the statements'         *)
(* results, each computed on the store left by the one before it; the      *)
(* callback stops at the first statement that throws.                      *)
(***************************************************************************)
\* statement k of a transaction: skipped once an earlier one has thrown;
\* throws "fault" when the store fails under it (connection, timeout)
Stmt(prev, k, fault, res) ==
    IF ~prev.ok THEN prev
    ELSE IF fault = k THEN Thrown("fault")
    ELSE res

FirstThrown(rs) ==
    IF \A i \in 1..Len(rs) : rs[i].ok THEN 0
    ELSE CHOOSE i \in 1..Len(rs) : ~rs[i].ok /\ \A j \in 1..(i - 1) : rs[j].ok

TxError(rs) ==
    IF FirstThrown(rs) = 0 THEN NoErr ELSE rs[FirstThrown(rs)].code

\* the store after the statements that ran, nothing rolled back
TransactionNoRollback(d, rs) ==
    LET k == FirstThrown(rs) IN
    IF k = 0 THEN rs[Len(rs)].db
    ELSE IF k = 1 THEN d ELSE rs[k - 1].db

\* prisma.$transaction: commit when the callback returns, roll back when it throws
Transaction(d, rs) ==
    IF FirstThrown(rs) = 0 THEN rs[Len(rs)].db ELSE d

(***************************************************************************)
(* Requests.  A slot holds one in-flight request: the handler's position   *)
(* (pc), the values it keeps across awaits, and, once it has answered, the *)
(* HTTP status, the error it caught and the count it reported.             *)
(***************************************************************************)
Idle ==
    [op |-> "none", pc |-> "idle", id |-> NULL, email |-> "", uploads |-> {},
     n |-> 0, site |-> NULL, admin |-> NULL, guide |-> NULL, user |-> NULL,
     status |-> 0, err |-> NoErr, count |-> 0, errors |-> {}, body |-> <<>>,
     images |-> {}]

\* res.status(status).json(...): the handler has answered
Respond(op, id, status, err, count) ==
    [Idle EXCEPT !.op = op, !.pc = "done", !.id = id, !.status = status,
                 !.err = err, !.count = count]

Free(r) == reqs[r].pc \in {"idle", "done"}

At(r, op, pc) == reqs[r].op = op /\ reqs[r].pc = pc

\* Identifiers are unique within a table and never handed out twice: nextId
\* holds, per table, the last one handed out.  A user, its site and its admin
\* row, created together, carry the same number (agg).
Allocated ==
    (nextId.agg - 3) + nextId.event + (nextId.image - 1) + nextId.booking
        + nextId.favorite

\* the numbers of files a request may carry within the bound
FileCounts == 0..(MaxOps - Allocated - 1)

(***************************************************************************)
(* Uploads.  The upload middleware stores the request's files before the   *)
(* handler runs; a file is named after the request's number.               *)
(***************************************************************************)
FileNames(n, nf) == {<<n, k>> : k \in 1..nf}

\* multer.diskStorage destination "uploads/events": file.path
EventPath(name) == [dir |-> "uploads/events", base |-> name]

\* the upload middleware of POST /tour-site/create: the files behind the
\* urls /uploads/sites/<filename>
SitePath(name) == [dir |-> "uploads/sites", base |-> name]

\* a deleteFile that unlinks nothing
DeleteFilesNothing(fs, paths) == fs

\* The directory the server was started in.  multer's destination
\* "uploads/events" is relative to it; the stored paths (files) are written
\* relative to it as well.  The repository runs from its root (where the
\* static route serves ../uploads of src) or from src.
WorkingDirs == {"app", "app/src"}

\* deleteFile: unlink when the path exists, never throws
DeleteFiles(fs, paths) == fs \ paths

(***************************************************************************)
(* createSiteAdminWithSite                                                 *)
(***************************************************************************)
Emails == {"a@x", "s@x"}

RequiredFields == {"name", "email", "password", "siteName", "siteLocation"}

\* request bodies: "" stands for a missing (falsy) field.  The bodies drawn
\* are the complete ones, those with one required field missing, and those
\* with all but one missing.
SiteBodies ==
    LET full(e) == [name |-> "n", email |-> e, password |-> "p",
                    siteName |-> "s", siteLocation |-> "l"]
        none    == [f \in RequiredFields |-> ""]
    IN  {full(e) : e \in Emails}
          \cup {[full("a@x") EXCEPT ![f] = ""] : f \in RequiredFields}
          \cup {[none EXCEPT ![f] = full("s@x")[f]] : f \in RequiredFields}

\* a check that forgets siteLocation
MissingRequiredNoLocation(b) ==
    \/ b.name = ""
    \/ b.email = ""
    \/ b.password = ""
    \/ b.siteName = ""

\* if (!name || !email || !password || !siteName || !siteLocation)
MissingRequired(b) ==
    \/ b.name = ""
    \/ b.email = ""
    \/ b.password = ""
    \/ b.siteName = ""
    \/ b.siteLocation = ""

\* the four statements of the transaction callback, on store d
CreateSiteAdminStmts(d, n, email, names, fault) ==
    LET r0 == Ok(d)
        r1 == Stmt(r0, 1, fault,
                   UserCreate(d, [id |-> n, email |-> email, role |-> "SITE_ADMIN"]))
        r2 == Stmt(r1, 2, fault, SiteCreate(r1.db, n))
        r3 == Stmt(r2, 3, fault,
                   AdminCreate(r2.db, [id |-> n, userId |-> n, siteId |-> n]))
        r4 == Stmt(r3, 4, fault,
                   IF names = {} THEN r3
                   ELSE SiteImageCreateMany(r3.db,
                            {[id |-> f, siteId |-> n] : f \in names}))
    IN  <<r1, r2, r3, r4>>

\* arrival, the required-fields check and the look-up of the email; nf files
\* came with the request and the upload middleware has stored them; the
\* handler unlinks none of them on any path
CreateSiteBegin(r, body, nf) ==
    /\ Free(r)
    /\ Allocated < MaxOps
    /\ LET valid == ~MissingRequired(body)
           taken == \E u \in db.users : u.email = body.email
       IN  reqs' = [reqs EXCEPT ![r] =
               IF ~valid THEN Respond("createSite", NULL, 400, NoErr, 0)
               ELSE IF taken THEN Respond("createSite", NULL, 409, NoErr, 0)
               ELSE [Idle EXCEPT !.op = "createSite", !.pc = "tx",
                                 !.email = body.email, !.count = nf]]
    /\ files' = files \cup {SitePath(f) : f \in FileNames(nextId.agg + 1, nf)}
    /\ UNCHANGED <<db, nextId, cwd>>

\* the transaction, and the answer: 201, or 500 from the catch block
CreateSiteTx(r, fault) ==
    /\ At(r, "createSite", "tx")
    /\ LET q  == reqs[r]
           n  == nextId.agg + 1
           rs == CreateSiteAdminStmts(db, n, q.email, FileNames(n, q.count), fault)
       IN  /\ db' = Transaction(db, rs)
           /\ nextId' = IF FirstThrown(rs) = 0
                         THEN [nextId EXCEPT !.agg = n, !.image = @ + q.count]
                         ELSE nextId
           /\ reqs' = [reqs EXCEPT ![r] =
                  IF FirstThrown(rs) = 0
                  THEN Respond("createSite", NULL, 201, NoErr, 0)
                  ELSE Respond("createSite", NULL, 500, TxError(rs), 0)]
    /\ UNCHANGED <<files, cwd>>

(***************************************************************************)
(* deleteSiteAdmin                                                         *)
(***************************************************************************)
\* existingSiteAdmin.site.events.some(event => event.bookings.length > 0)
HasBookings(d, siteId) ==
    \E e \in d.events :
        /\ e.siteId = siteId
        /\ \E b \in d.bookings : b.eventId = e.id

\* the callback without its favorite.deleteMany
DeleteSiteAdminStmtsNoFavorites(d, id, siteId, userId, fault) ==
    LET r0 == Ok(d)
        r1 == Stmt(r0, 1, fault, EventDeleteManyByAdmin(d, id))
        r2 == Stmt(r1, 2, fault, SiteImageDeleteMany(r1.db, siteId))
        r3 == Stmt(r2, 3, fault, r2)
        r4 == Stmt(r3, 4, fault, AdminDelete(r3.db, id))
        r5 == Stmt(r4, 5, fault, SiteDelete(r4.db, siteId))
        r6 == Stmt(r5, 6, fault, UserDelete(r5.db, userId))
    IN  <<r1, r2, r3, r4, r5, r6>>

\* the six statements of the transaction callback, on store d
DeleteSiteAdminStmts(d, id, siteId, userId, fault) ==
    LET r0 == Ok(d)
        r1 == Stmt(r0, 1, fault, EventDeleteManyByAdmin(d, id))
        r2 == Stmt(r1, 2, fault, SiteImageDeleteMany(r1.db, siteId))
        r3 == Stmt(r2, 3, fault, FavoriteDeleteMany(r2.db, siteId))
        r4 == Stmt(r3, 4, fault, AdminDelete(r3.db, id))
        r5 == Stmt(r4, 5, fault, SiteDelete(r4.db, siteId))
        r6 == Stmt(r5, 6, fault, UserDelete(r5.db, userId))
    IN  <<r1, r2, r3, r4, r5, r6>>

\* the handler without its not-found return: reading .site of null throws
DeleteSiteAdminFindNoNotFound(r, id) ==
    /\ Free(r)
    /\ LET found == {a \in db.admins : a.id = id} IN
       reqs' = [reqs EXCEPT ![r] =
           IF found = {} THEN Respond("deleteAdmin", id, 500, "TypeError", 0)
           ELSE LET a == CHOOSE x \in found : TRUE IN
                IF HasBookings(db, a.siteId)
                THEN Respond("deleteAdmin", id, 400, NoErr, 0)
                ELSE [Idle EXCEPT !.op = "deleteAdmin", !.pc = "tx", !.id = id,
                                  !.site = a.siteId, !.user = a.userId]]
    /\ UNCHANGED <<db, files, nextId, cwd>>

\* arrival, the look-up of the admin with its site's events and their
\* bookings, and the bookings guard
DeleteSiteAdminFind(r, id) ==
    /\ Free(r)
    /\ LET found == {a \in db.admins : a.id = id} IN
       reqs' = [reqs EXCEPT ![r] =
           IF found = {} THEN Respond("deleteAdmin", id, 404, NoErr, 0)
           ELSE LET a == CHOOSE x \in found : TRUE IN
                IF HasBookings(db, a.siteId)
                THEN Respond("deleteAdmin", id, 400, NoErr, 0)
                ELSE [Idle EXCEPT !.op = "deleteAdmin", !.pc = "tx", !.id = id,
                                  !.site = a.siteId, !.user = a.userId]]
    /\ UNCHANGED <<db, files, nextId, cwd>>

\* the six statements awaited one by one, outside any transaction
DeleteSiteAdminTxUnwrapped(r, fault) ==
    /\ At(r, "deleteAdmin", "tx")
    /\ LET q  == reqs[r]
           rs == DeleteSiteAdminStmts(db, q.id, q.site, q.user, fault)
       IN  /\ db' = TransactionNoRollback(db, rs)
           /\ reqs' = [reqs EXCEPT ![r] =
                  IF FirstThrown(rs) = 0
                  THEN Respond("deleteAdmin", q.id, 200, NoErr, 0)
                  ELSE Respond("deleteAdmin", q.id, 500, TxError(rs), 0)]
    /\ UNCHANGED <<files, nextId, cwd>>

\* the transaction, and the answer: 200, or 500 from the catch block
DeleteSiteAdminTx(r, fault) ==
    /\ At(r, "deleteAdmin", "tx")
    /\ LET q  == reqs[r]
           rs == DeleteSiteAdminStmts(db, q.id, q.site, q.user, fault)
       IN  /\ db' = Transaction(db, rs)
           /\ reqs' = [reqs EXCEPT ![r] =
                  IF FirstThrown(rs) = 0
                  THEN Respond("deleteAdmin", q.id, 200, NoErr, 0)
                  ELSE Respond("deleteAdmin", q.id, 500, TxError(rs), 0)]
    /\ UNCHANGED <<files, nextId, cwd>>

(***************************************************************************)
(* createEvent                                                             *)
(***************************************************************************)
\* String.prototype.trim on the sampled strings
Trim(s) == IF s = " " THEN "" ELSE s

\* parseFloat on the sampled strings, in tenths; NaN when it parses nothing
ParseFloat(s) ==
    CASE s = "10"  -> [nan |-> FALSE, tenths |-> 100]
      [] s = "2.5" -> [nan |-> FALSE, tenths |-> 25]
      [] s = "0"   -> [nan |-> FALSE, tenths |-> 0]
      [] s = "-1"  -> [nan |-> FALSE, tenths |-> -10]
      [] s = "3x"  -> [nan |-> FALSE, tenths |-> 30]
      [] OTHER     -> [nan |-> TRUE, tenths |-> 0]

\* parseInt on the sampled strings: the leading integer, NaN when there is none
ParseInt(s) ==
    CASE s = "10"  -> [nan |-> FALSE, int |-> 10]
      [] s = "2.5" -> [nan |-> FALSE, int |-> 2]
      [] s = "0"   -> [nan |-> FALSE, int |-> 0]
      [] s = "-1"  -> [nan |-> FALSE, int |-> -1]
      [] s = "3x"  -> [nan |-> FALSE, int |-> 3]
      [] OTHER     -> [nan |-> TRUE, int |-> 0]

\* the rules createEvent collects, by the message each pushes
EventErrors(b) ==
    {m \in {"Title is required", "Description is required",
            "Valid price is required", "Valid duration is required",
            "Valid max group size is required", "Touristic site ID is required",
            "Either site admin ID or guide ID is required"} :
       \/ m = "Title is required" /\ (b.title = "" \/ Trim(b.title) = "")
       \/ m = "Description is required"
            /\ (b.description = "" \/ Trim(b.description) = "")
       \/ m = "Valid price is required"
            /\ (b.price = "" \/ ParseFloat(b.price).nan
                  \/ ParseFloat(b.price).tenths <= 0)
       \/ m = "Valid duration is required"
            /\ (b.duration = "" \/ ParseInt(b.duration).nan
                  \/ ParseInt(b.duration).int <= 0)
       \/ m = "Valid max group size is required"
            /\ (b.maxGroupSize = "" \/ ParseInt(b.maxGroupSize).nan
                  \/ ParseInt(b.maxGroupSize).int <= 0)
       \/ m = "Touristic site ID is required" /\ b.touristicSiteId = NULL
       \/ m = "Either site admin ID or guide ID is required"
            /\ b.siteAdminId = NULL /\ b.guideId = NULL}

\* the text and number fields of the sampled request bodies
EventFields ==
    {[title |-> "t", description |-> "d", price |-> "2.5", duration |-> "10",
      maxGroupSize |-> "10"],
     [title |-> " ", description |-> "d", price |-> "3x", duration |-> "2.5",
      maxGroupSize |-> "0"]}

\* identifiers a request may name: the rows of a table, none, and one that
\* names no row
Named(ids, last) == ids \cup {NULL, last + 1}

EventBody(f, site, admin, guide) ==
    [title |-> f.title, description |-> f.description, price |-> f.price,
     duration |-> f.duration, maxGroupSize |-> f.maxGroupSize,
     touristicSiteId |-> site, siteAdminId |-> admin, guideId |-> guide]

\* the data of event.create: trimmed texts, parsed numbers, connected ids
EventRow(n, b) ==
    [id |-> n, siteId |-> b.touristicSiteId, adminId |-> b.siteAdminId,
     guideId |-> b.guideId, title |-> Trim(b.title),
     description |-> Trim(b.description), price |-> ParseFloat(b.price).tenths,
     duration |-> ParseInt(b.duration).int,
     maxGroupSize |-> ParseInt(b.maxGroupSize).int]

\* an insert that does not look at the rows it connects to
EventCreateUnchecked(d, row, names) ==
    Ok([d EXCEPT !.events = @ \cup {row},
                 !.eventImages = @ \cup {[id |-> f, eventId |-> row.id] : f \in names}])

\* event.create with connect and nested image creates
EventCreate(d, row, names) ==
    IF \/ row.siteId \notin d.sites
       \/ row.adminId # NULL /\ row.adminId \notin {a.id : a \in d.admins}
       \/ row.guideId # NULL /\ row.guideId \notin {g.id : g \in d.guides}
    THEN Thrown("P2025")
    ELSE Ok([d EXCEPT !.events = @ \cup {row},
                      !.eventImages = @ \cup {[id |-> f, eventId |-> row.id] : f \in names}])

\* the position after the site was found
AfterSite(admin, guide) ==
    IF admin # NULL THEN "findAdmin"
    ELSE IF guide # NULL THEN "findGuide" ELSE "create"

\* arrival, the collected validation and the look-up of the site; a rejected
\* request's files are unlinked before the answer
CreateEventBegin(r, body, nf) ==
    /\ Free(r)
    /\ Allocated < MaxOps
    /\ LET n      == nextId.event + 1
           stored == files \cup {EventPath(f) : f \in FileNames(n, nf)}
           errors == EventErrors(body)
           found  == body.touristicSiteId \in db.sites
           goes   == errors = {} /\ found
       IN  /\ files' = IF goes THEN stored
                       ELSE DeleteFiles(stored, {EventPath(f) : f \in FileNames(n, nf)})
           /\ nextId' = IF goes THEN [nextId EXCEPT !.event = n, !.image = @ + nf]
                         ELSE nextId
           /\ reqs' = [reqs EXCEPT ![r] =
                  IF errors # {}
                  THEN [Respond("createEvent", NULL, 400, NoErr, 0)
                          EXCEPT !.errors = errors]
                  ELSE IF ~found
                  THEN Respond("createEvent", NULL, 404, "Touristic site not found", 0)
                  ELSE [Idle EXCEPT !.op = "createEvent",
                                    !.pc = AfterSite(body.siteAdminId, body.guideId),
                                    !.body = body,
                                    !.n = n, !.site = body.touristicSiteId,
                                    !.admin = body.siteAdminId,
                                    !.guide = body.guideId,
                                    !.uploads = FileNames(n, nf)]]
    /\ UNCHANGED <<db, cwd>>

\* the look-up of the site admin
CreateEventFindAdmin(r) ==
    /\ At(r, "createEvent", "findAdmin")
    /\ LET q == reqs[r]
           found == q.admin \in {a.id : a \in db.admins}
       IN  /\ files' = IF found THEN files
                       ELSE DeleteFiles(files, {EventPath(f) : f \in q.uploads})
           /\ reqs' = [reqs EXCEPT ![r] =
                  IF found
                  THEN [q EXCEPT !.pc = IF q.guide # NULL THEN "findGuide" ELSE "create"]
                  ELSE Respond("createEvent", NULL, 404, "Site admin not found", 0)]
    /\ UNCHANGED <<db, nextId, cwd>>

\* the handler without its look-up of the guide
CreateEventFindGuideNoCheck(r) ==
    /\ At(r, "createEvent", "findGuide")
    /\ reqs' = [reqs EXCEPT ![r] = [reqs[r] EXCEPT !.pc = "create"]]
    /\ UNCHANGED <<db, files, nextId, cwd>>

\* the look-up of the guide
CreateEventFindGuide(r) ==
    /\ At(r, "createEvent", "findGuide")
    /\ LET q == reqs[r]
           found == q.guide \in {g.id : g \in db.guides}
       IN  /\ files' = IF found THEN files
                       ELSE DeleteFiles(files, {EventPath(f) : f \in q.uploads})
           /\ reqs' = [reqs EXCEPT ![r] =
                  IF found THEN [q EXCEPT !.pc = "create"]
                  ELSE Respond("createEvent", NULL, 404, "Guide not found", 0)]
    /\ UNCHANGED <<db, nextId, cwd>>

\* event.create, and the answer: 201, or 500 from the catch block, which
\* unlinks the request's files
CreateEventCreate(r) ==
    /\ At(r, "createEvent", "create")
    /\ LET q   == reqs[r]
           res == EventCreate(db, EventRow(q.n, q.body), q.uploads)
       IN  /\ db' = IF res.ok THEN res.db ELSE db
           /\ files' = IF res.ok THEN files
                       ELSE DeleteFiles(files, {EventPath(f) : f \in q.uploads})
           /\ reqs' = [reqs EXCEPT ![r] =
                  IF res.ok
                  THEN Respond("createEvent", NULL, 201, NoErr, 0)
                  ELSE Respond("createEvent", NULL, 500, res.code, 0)]
    /\ UNCHANGED <<nextId, cwd>>

(***************************************************************************)
(* deleteEvent                                                             *)
(***************************************************************************)
\* bookings: {where: {status: {in: ["PENDING", "CONFIRMED"]}}}
ActiveBookings(d, eid) ==
    {b \in d.bookings : b.eventId = eid /\ b.status \in ActiveStatuses}

\* deleteEvent calls a function the module never defines: the call throws
GetFileSystemPathFromWebPath(url) == Thrown("ReferenceError")

\* arrival, the look-up of the event with its active bookings and images,
\* the guard, and the loop over the images
DeleteEventFind(r, id) ==
    /\ Free(r)
    /\ LET found  == id \in {e.id : e \in db.events}
           active == ActiveBookings(db, id)
           images == {i \in db.eventImages : i.eventId = id}
       IN  reqs' = [reqs EXCEPT ![r] =
               IF ~found THEN Respond("deleteEvent", id, 404, NoErr, 0)
               ELSE IF active # {}
               THEN Respond("deleteEvent", id, 400, NoErr, Cardinality(active))
               ELSE IF \E i \in images : ~GetFileSystemPathFromWebPath(i.id).ok
               THEN Respond("deleteEvent", id, 500, "ReferenceError", 0)
               ELSE [Idle EXCEPT !.op = "deleteEvent", !.pc = "delete", !.id = id]]
    /\ UNCHANGED <<db, files, nextId, cwd>>

\* event.delete, and the answer: 200, or 500 from the catch block
DeleteEventDelete(r) ==
    /\ At(r, "deleteEvent", "delete")
    /\ LET q   == reqs[r]
           res == EventDelete(db, q.id)
       IN  /\ db' = IF res.ok THEN res.db ELSE db
           /\ reqs' = [reqs EXCEPT ![r] =
                  IF res.ok THEN Respond("deleteEvent", q.id, 200, NoErr, 0)
                  ELSE Respond("deleteEvent", q.id, 500, res.code, 0)]
    /\ UNCHANGED <<files, nextId, cwd>>

(***************************************************************************)
(* updateEvent                                                             *)
(***************************************************************************)
\* getFilePath: the controller's directory, "..", "uploads", "events" and the
\* url's basename, written relative to the working directory c.  It is
\* multer's directory when the server runs from src, and src/uploads/events
\* beside it when the server runs from the repository root.
GetFilePath(c, name) ==
    [dir |-> IF c = "app/src" THEN "uploads/events" ELSE "src/uploads/events",
     base |-> name]

\* a request body: given holds the keys the body has; a key it does not have
\* reads undefined, which the record carries as "" or NULL.  imagesToRemove
\* is the list its JSON string parses to.
EmptyBody ==
    [given |-> {}, title |-> "", description |-> "", price |-> "",
     duration |-> "", maxGroupSize |-> "", touristicSiteId |-> NULL,
     siteAdminId |-> NULL, guideId |-> NULL, imagesToRemove |-> {}]

\* PUT /update/:id is routed to the handler with no upload middleware:
\* express.json() parses a JSON body and leaves a multipart body as {}
RouteBody(req) == IF req.multipart THEN EmptyBody ELSE req.body

\* and nothing sets req.files: const files = req.files || []
RouteFiles(req) == {}

\* the rules updateEvent collects, each only for a key the body has
UpdateErrors(b) ==
    {m \in {"Title cannot be empty", "Description cannot be empty",
            "Valid price is required", "Valid duration is required",
            "Valid max group size is required"} :
       \/ m = "Title cannot be empty" /\ "title" \in b.given
            /\ (b.title = "" \/ Trim(b.title) = "")
       \/ m = "Description cannot be empty" /\ "description" \in b.given
            /\ (b.description = "" \/ Trim(b.description) = "")
       \/ m = "Valid price is required" /\ "price" \in b.given
            /\ (ParseFloat(b.price).nan \/ ParseFloat(b.price).tenths <= 0)
       \/ m = "Valid duration is required" /\ "duration" \in b.given
            /\ (ParseInt(b.duration).nan \/ ParseInt(b.duration).int <= 0)
       \/ m = "Valid max group size is required" /\ "maxGroupSize" \in b.given
            /\ (ParseInt(b.maxGroupSize).nan \/ ParseInt(b.maxGroupSize).int <= 0)}

\* a filter on the id list alone
ImagesToDeleteAnyEvent(d, ids, eid) ==
    {i \in d.eventImages : i.id \in ids}

\* where: {id: {in: parsedImagesToRemove}, eventId: id}
ImagesToDelete(d, ids, eid) ==
    {i \in d.eventImages : i.id \in ids /\ i.eventId = eid}

\* eventImage.deleteMany with that filter
EventImageDeleteMany(d, ids, eid) ==
    Ok([d EXCEPT !.eventImages = @ \ ImagesToDelete(d, ids, eid)])

\* a relation that a body without the key disconnects as well
RelationAlways(b, f, old) == b[f]

\* siteAdmin / guide of updateData: untouched when the body has no such key,
\* connect for a truthy value, disconnect for a falsy one
Relation(b, f, old) ==
    IF f \notin b.given THEN old
    ELSE IF b[f] # NULL THEN b[f] ELSE NULL

\* updateData applied to the event's row
UpdateData(b, e) ==
    [e EXCEPT
       !.title = IF "title" \in b.given THEN Trim(b.title) ELSE @,
       !.description = IF "description" \in b.given THEN Trim(b.description) ELSE @,
       !.price = IF "price" \in b.given THEN ParseFloat(b.price).tenths ELSE @,
       !.duration = IF "duration" \in b.given THEN ParseInt(b.duration).int ELSE @,
       !.maxGroupSize = IF "maxGroupSize" \in b.given
                        THEN ParseInt(b.maxGroupSize).int ELSE @,
       !.siteId = IF b.touristicSiteId # NULL THEN b.touristicSiteId ELSE @,
       !.adminId = Relation(b, "siteAdminId", @),
       !.guideId = Relation(b, "guideId", @)]

\* event.update with connect, disconnect and nested image creates: one
\* statement, which throws when the event or a row to connect is not there
EventUpdate(d, eid, b, names) ==
    IF \/ eid \notin {e.id : e \in d.events}
       \/ b.touristicSiteId # NULL /\ b.touristicSiteId \notin d.sites
       \/ "siteAdminId" \in b.given /\ b.siteAdminId # NULL
            /\ b.siteAdminId \notin {a.id : a \in d.admins}
       \/ "guideId" \in b.given /\ b.guideId # NULL
            /\ b.guideId \notin {g.id : g \in d.guides}
    THEN Thrown("P2025")
    ELSE Ok([d EXCEPT
               !.events = {IF e.id = eid THEN UpdateData(b, e) ELSE e : e \in @},
               !.eventImages = @ \cup {[id |-> f, eventId |-> eid] : f \in names}])

\* the position after the image removals
AfterImages(b) == IF b.touristicSiteId # NULL THEN "findSite" ELSE "update"

\* arrival through the route, the look-up of the event and the collected
\* validation; a rejected request's files are unlinked before the answer
UpdateEventFind(r, id, req) ==
    /\ Free(r)
    /\ LET body   == RouteBody(req)
           names  == RouteFiles(req)
           found  == id \in {e.id : e \in db.events}
           errors == UpdateErrors(body)
           goes   == found /\ errors = {}
       IN  /\ files' = IF goes THEN files
                       ELSE DeleteFiles(files, {EventPath(f) : f \in names})
           /\ reqs' = [reqs EXCEPT ![r] =
                  IF ~found
                  THEN Respond("updateEvent", id, 404, "Event not found", 0)
                  ELSE IF errors # {}
                  THEN [Respond("updateEvent", id, 400, NoErr, 0)
                          EXCEPT !.errors = errors]
                  ELSE [Idle EXCEPT !.op = "updateEvent",
                                    !.pc = IF body.imagesToRemove # {}
                                           THEN "findImages" ELSE AfterImages(body),
                                    !.id = id, !.body = body, !.uploads = names,
                                    !.count = req.sent]]
    /\ UNCHANGED <<db, nextId, cwd>>

\* eventImage.findMany, and the loop that unlinks each found image's file
UpdateEventFindImages(r) ==
    /\ At(r, "updateEvent", "findImages")
    /\ LET q == reqs[r]
           imagesToDelete == ImagesToDelete(db, q.body.imagesToRemove, q.id)
       IN  /\ files' = DeleteFiles(files, {GetFilePath(cwd, i.id) : i \in imagesToDelete})
           /\ reqs' = [reqs EXCEPT ![r] =
                  [q EXCEPT !.pc = "deleteImages", !.images = imagesToDelete]]
    /\ UNCHANGED <<db, nextId, cwd>>

\* eventImage.deleteMany
UpdateEventDeleteImages(r) ==
    /\ At(r, "updateEvent", "deleteImages")
    /\ LET q == reqs[r] IN
       /\ db' = EventImageDeleteMany(db, q.body.imagesToRemove, q.id).db
       /\ reqs' = [reqs EXCEPT ![r] = [q EXCEPT !.pc = AfterImages(q.body)]]
    /\ UNCHANGED <<files, nextId, cwd>>

\* the look-up of the site the body names
UpdateEventFindSite(r) ==
    /\ At(r, "updateEvent", "findSite")
    /\ LET q == reqs[r]
           found == q.body.touristicSiteId \in db.sites
       IN  /\ files' = IF found THEN files
                       ELSE DeleteFiles(files, {EventPath(f) : f \in q.uploads})
           /\ reqs' = [reqs EXCEPT ![r] =
                  IF found THEN [q EXCEPT !.pc = "update"]
                  ELSE Respond("updateEvent", q.id, 404, "Touristic site not found", 0)]
    /\ UNCHANGED <<db, nextId, cwd>>

\* event.update, and the answer: 200, or 500 from the catch block, which
\* unlinks the request's files
UpdateEventUpdate(r) ==
    /\ At(r, "updateEvent", "update")
    /\ LET q   == reqs[r]
           res == EventUpdate(db, q.id, q.body, q.uploads)
       IN  /\ db' = IF res.ok THEN res.db ELSE db
           /\ files' = IF res.ok THEN files
                       ELSE DeleteFiles(files, {EventPath(f) : f \in q.uploads})
           /\ reqs' = [reqs EXCEPT ![r] =
                  IF res.ok
                  THEN Respond("updateEvent", q.id, 200, NoErr, 0)
                  ELSE Respond("updateEvent", q.id, 500, res.code, 0)]
    /\ UNCHANGED <<nextId, cwd>>

(***************************************************************************)
(* registerUser, updateUser, deleteUser                                    *)
(***************************************************************************)
\* an update under no unique index on email
UserUpdateNoUnique(d, uid, data) ==
    IF uid \notin {u.id : u \in d.users}
    THEN Thrown("P2025")
    ELSE Ok([d EXCEPT !.users =
                {IF u.id = uid
                 THEN [u EXCEPT !.email = IF data.email # "" THEN data.email ELSE @,
                                !.role = IF data.role # "" THEN data.role ELSE @]
                 ELSE u : u \in @}])

\* user.update: P2025 when the row is not there, P2002 when the new email is
\* another row's; data holds "" for a key it does not set
UserUpdate(d, uid, data) ==
    IF uid \notin {u.id : u \in d.users}
    THEN Thrown("P2025")
    ELSE IF data.email # "" /\ \E u \in d.users : u.id # uid /\ u.email = data.email
    THEN Thrown("P2002")
    ELSE Ok([d EXCEPT !.users =
                {IF u.id = uid
                 THEN [u EXCEPT !.email = IF data.email # "" THEN data.email ELSE @,
                                !.role = IF data.role # "" THEN data.role ELSE @]
                 ELSE u : u \in @}])

\* request bodies of registerUser: "" stands for a missing (falsy) field
RegisterBodies ==
    LET full(e, ro) == [email |-> e, name |-> "n", password |-> "p", role |-> ro]
    IN  {full(e, "TOURIST") : e \in Emails}
          \cup {[full("a@x", "TOURIST") EXCEPT ![f] = ""] :
                  f \in {"email", "name", "password"}}

\* the handler: the required-fields check, user.create, and the answer: 201,
\* 409 for P2002, 500 for any other error
RegisterUser(r, body) ==
    /\ Free(r)
    /\ Allocated < MaxOps
    /\ LET n   == nextId.agg + 1
           bad == body.email = "" \/ body.name = "" \/ body.password = ""
           res == UserCreate(db, [id |-> n, email |-> body.email, role |-> body.role])
       IN  /\ db' = IF ~bad /\ res.ok THEN res.db ELSE db
           /\ nextId' = IF ~bad /\ res.ok THEN [nextId EXCEPT !.agg = n] ELSE nextId
           /\ reqs' = [reqs EXCEPT ![r] =
                  IF bad THEN Respond("registerUser", NULL, 400, NoErr, 0)
                  ELSE IF res.ok THEN Respond("registerUser", n, 201, NoErr, 0)
                  ELSE IF res.code = "P2002"
                  THEN Respond("registerUser", NULL, 409, res.code, 0)
                  ELSE Respond("registerUser", NULL, 500, res.code, 0)]
    /\ UNCHANGED <<files, cwd>>

\* request bodies of updateUser: "" stands for a key the body does not set
UserUpdateBodies ==
    {[email |-> "a@x", role |-> ""], [email |-> "s@x", role |-> ""],
     [email |-> "", role |-> "TOURIST"]}

\* the handler: user.update, and the answer: 200, 409 for P2002, 404 for
\* P2025, 500 for any other error
UpdateUser(r, id, body) ==
    /\ Free(r)
    /\ LET res == UserUpdate(db, id, body) IN
       /\ db' = IF res.ok THEN res.db ELSE db
       /\ reqs' = [reqs EXCEPT ![r] =
              IF res.ok THEN Respond("updateUser", id, 200, NoErr, 0)
              ELSE IF res.code = "P2002" THEN Respond("updateUser", id, 409, res.code, 0)
              ELSE IF res.code = "P2025" THEN Respond("updateUser", id, 404, res.code, 0)
              ELSE Respond("updateUser", id, 500, res.code, 0)]
    /\ UNCHANGED <<files, nextId, cwd>>

\* the handler: user.delete, and the answer: 204, 404 for P2025, 500 for any
\* other error
DeleteUser(r, id) ==
    /\ Free(r)
    /\ LET res == UserDelete(db, id) IN
       /\ db' = IF res.ok THEN res.db ELSE db
       /\ reqs' = [reqs EXCEPT ![r] =
              IF res.ok THEN Respond("deleteUser", id, 204, NoErr, 0)
              ELSE IF res.code = "P2025" THEN Respond("deleteUser", id, 404, res.code, 0)
              ELSE Respond("deleteUser", id, 500, res.code, 0)]
    /\ UNCHANGED <<files, nextId, cwd>>

(***************************************************************************)
(* updateSiteAdmin                                                         *)
(***************************************************************************)
\* touristicSite.update: P2025 when the row is not there
SiteUpdate(d, sid) == IF sid \notin d.sites THEN Thrown("P2025") ELSE Ok(d)

\* the statements of the transaction callback, on store d; the route has no
\* upload middleware, so there is no image to add
UpdateSiteAdminStmts(d, userId, siteId, email, fault) ==
    LET r0 == Ok(d)
        r1 == Stmt(r0, 1, fault, UserUpdate(d, userId, [email |-> email, role |-> ""]))
        r2 == Stmt(r1, 2, fault, SiteUpdate(r1.db, siteId))
    IN  <<r1, r2>>

\* arrival and the look-up of the admin with its user
UpdateSiteAdminFind(r, id, email) ==
    /\ Free(r)
    /\ LET found == {a \in db.admins : a.id = id} IN
       reqs' = [reqs EXCEPT ![r] =
           IF found = {} THEN Respond("updateAdmin", id, 404, NoErr, 0)
           ELSE LET a == CHOOSE x \in found : TRUE
                    u == CHOOSE x \in db.users : x.id = a.userId
                IN  [Idle EXCEPT !.op = "updateAdmin",
                                 !.pc = IF email # "" /\ email # u.email
                                        THEN "findEmail" ELSE "tx",
                                 !.id = id, !.site = a.siteId, !.user = a.userId,
                                 !.email = email]]
    /\ UNCHANGED <<db, files, nextId, cwd>>

\* the look-up of the new email
UpdateSiteAdminFindEmail(r) ==
    /\ At(r, "updateAdmin", "findEmail")
    /\ LET q == reqs[r]
           taken == \E u \in db.users : u.email = q.email
       IN  reqs' = [reqs EXCEPT ![r] =
               IF taken THEN Respond("updateAdmin", q.id, 409, NoErr, 0)
               ELSE [q EXCEPT !.pc = "tx"]]
    /\ UNCHANGED <<db, files, nextId, cwd>>

\* the transaction, and the answer: 200, or 500 from the catch block
UpdateSiteAdminTx(r, fault) ==
    /\ At(r, "updateAdmin", "tx")
    /\ LET q  == reqs[r]
           rs == UpdateSiteAdminStmts(db, q.user, q.site, q.email, fault)
       IN  /\ db' = Transaction(db, rs)
           /\ reqs' = [reqs EXCEPT ![r] =
                  IF FirstThrown(rs) = 0
                  THEN Respond("updateAdmin", q.id, 200, NoErr, 0)
                  ELSE Respond("updateAdmin", q.id, 500, TxError(rs), 0)]
    /\ UNCHANGED <<files, nextId, cwd>>

(***************************************************************************)
(* Other writers of the store.  No routed handler creates a Booking or a   *)
(* Favorite; the rows are inserted through the store, under its            *)
(* constraints.                                                            *)
(***************************************************************************)
InsertBooking(e, st, t, g) ==
    /\ Allocated < MaxOps
    /\ e \in {x.id : x \in db.events}
    /\ t \in {u.id : u \in db.users}
    /\ g \in {x.id : x \in db.guides}
    /\ nextId' = [nextId EXCEPT !.booking = @ + 1]
    /\ db' = [db EXCEPT !.bookings = @ \cup
                 {[id |-> nextId.booking + 1, eventId |-> e, status |-> st,
                   touristId |-> t, guideId |-> g]}]
    /\ UNCHANGED <<files, reqs, cwd>>

InsertFavorite(u, s) ==
    /\ Allocated < MaxOps
    /\ u \in {x.id : x \in db.users}
    /\ s \in db.sites
    /\ ~\E f \in db.favorites : f.userId = u /\ f.siteId = s
    /\ nextId' = [nextId EXCEPT !.favorite = @ + 1]
    /\ db' = [db EXCEPT !.favorites = @ \cup
                 {[id |-> nextId.favorite + 1, userId |-> u, siteId |-> s]}]
    /\ UNCHANGED <<files, reqs, cwd>>

(***************************************************************************)
(* Specifications.                                                         *)
(***************************************************************************)
\* a store that holds one tourist, one guide, and one site with its admin and
\* one image, as createSiteAdminWithSite leaves them
Init ==
    /\ db = [users |-> {[id |-> 1, email |-> "t@x", role |-> "TOURIST"],
                        [id |-> 2, email |-> "g@x", role |-> "GUIDE"],
                        [id |-> 3, email |-> "s@x", role |-> "SITE_ADMIN"]},
             guides |-> {[id |-> 1, userId |-> 2]},
             sites |-> {3},
             admins |-> {[id |-> 3, userId |-> 3, siteId |-> 3]},
             siteImages |-> {[id |-> <<3, 1>>, siteId |-> 3]},
             favorites |-> {}, events |-> {}, eventImages |-> {}, bookings |-> {}]
    /\ files = {}
    /\ reqs = [r \in Reqs |-> Idle]
    /\ nextId = [agg |-> 3, event |-> 0, image |-> 1, booking |-> 0, favorite |-> 0]
    /\ cwd = "app"

\* the statement of a transaction under which the store fails; 0 for none
Faults(k) == 0..k

Tourists == {u.id : u \in {x \in db.users : x.role = "TOURIST"}}

\* identifiers a delete request may name: every one handed out so far
AdminIds == 3..nextId.agg

EventIds == 1..nextId.event

\* requests without files
CreateSiteAdminWithSite(r) ==
    \/ \E b \in SiteBodies : CreateSiteBegin(r, b, 0)
    \/ \E f \in Faults(4) : CreateSiteTx(r, f)

DeleteSiteAdmin(r) ==
    \/ \E id \in AdminIds : DeleteSiteAdminFind(r, id)
    \/ \E f \in Faults(6) : DeleteSiteAdminTx(r, f)

CreateEvent(r) ==
    \/ \E f \in EventFields, s \in Named(db.sites, nextId.agg),
          a \in Named({x.id : x \in db.admins}, nextId.agg),
          g \in Named({x.id : x \in db.guides}, 1), nf \in FileCounts :
          CreateEventBegin(r, EventBody(f, s, a, g), nf)
    \/ CreateEventFindAdmin(r)
    \/ CreateEventFindGuide(r)
    \/ CreateEventCreate(r)

DeleteEvent(r) ==
    \/ \E id \in EventIds : DeleteEventFind(r, id)
    \/ DeleteEventDelete(r)

Writers ==
    \/ \E e \in EventIds, st \in BookingStatuses, t \in Tourists,
          g \in {x.id : x \in db.guides} : InsertBooking(e, st, t, g)
    \/ \E u \in {x.id : x \in db.users}, s \in db.sites : InsertFavorite(u, s)

\* one request at a time
Next ==
    \/ CreateSiteAdminWithSite(1)
    \/ DeleteSiteAdmin(1)
    \/ CreateEvent(1)
    \/ DeleteEvent(1)
    \/ Writers

Spec == Init /\ [][Next]_vars

\* constructor and destructor requests of the site-admin aggregate in flight
\* together, and favorites inserted meanwhile
NextConc ==
    \/ \E r \in Reqs : CreateSiteAdminWithSite(r)
    \/ \E r \in Reqs : DeleteSiteAdmin(r)
    \/ \E u \in {x.id : x \in db.users}, s \in db.sites : InsertFavorite(u, s)

SpecConc == Init /\ [][NextConc]_vars

\* a createEvent request in flight together with a deleteSiteAdmin request
NextEvent ==
    \/ CreateEvent(1)
    \/ DeleteSiteAdmin(2)

SpecEvent == Init /\ [][NextEvent]_vars

\* requests with files
CreateSiteAdminWithFiles(r) ==
    \/ \E b \in SiteBodies, nf \in FileCounts : CreateSiteBegin(r, b, nf)
    \/ \E f \in Faults(4) : CreateSiteTx(r, f)

\* the handlers behind an upload middleware, one request at a time, and
\* deleteSiteAdmin
NextUpload ==
    \/ CreateSiteAdminWithFiles(1)
    \/ CreateEvent(1)
    \/ DeleteSiteAdmin(1)

SpecUpload == Init /\ [][NextUpload]_vars

\* identifiers a users request may name: every one handed out so far
AllUserIds == 1..nextId.agg

UpdateSiteAdmin(r) ==
    \/ \E id \in AdminIds, e \in {"", "a@x", "s@x"} : UpdateSiteAdminFind(r, id, e)
    \/ UpdateSiteAdminFindEmail(r)
    \/ \E f \in Faults(2) : UpdateSiteAdminTx(r, f)

\* the users handlers and the constructor of the site-admin aggregate in
\* slot 1, in flight together with updateSiteAdmin requests in slot 2
NextUsers ==
    \/ \E b \in RegisterBodies : RegisterUser(1, b)
    \/ \E id \in AllUserIds, b \in UserUpdateBodies : UpdateUser(1, id, b)
    \/ \E id \in AllUserIds : DeleteUser(1, id)
    \/ CreateSiteAdminWithSite(1)
    \/ UpdateSiteAdmin(2)

SpecUsers == Init /\ [][NextUsers]_vars

\* A store as createSiteAdminWithSite and createEvent leave it: a second site
\* with its admin, event 1 of admin 3 with two images, event 2 of guide 1 with
\* one image, each image's file where multer stored it.  The server runs from
\* either directory.
InitUpdate ==
    /\ db = [users |-> {[id |-> 1, email |-> "t@x", role |-> "TOURIST"],
                        [id |-> 2, email |-> "g@x", role |-> "GUIDE"],
                        [id |-> 3, email |-> "s@x", role |-> "SITE_ADMIN"],
                        [id |-> 4, email |-> "a@x", role |-> "SITE_ADMIN"]},
             guides |-> {[id |-> 1, userId |-> 2]},
             sites |-> {3, 4},
             admins |-> {[id |-> 3, userId |-> 3, siteId |-> 3],
                         [id |-> 4, userId |-> 4, siteId |-> 4]},
             siteImages |-> {[id |-> <<3, 1>>, siteId |-> 3]},
             favorites |-> {},
             events |-> {EventRow(1, EventBody([title |-> "t", description |-> "d",
                                                price |-> "2.5", duration |-> "10",
                                                maxGroupSize |-> "10"], 3, 3, NULL)),
                         EventRow(2, EventBody([title |-> "t", description |-> "d",
                                                price |-> "2.5", duration |-> "10",
                                                maxGroupSize |-> "10"], 3, NULL, 1))},
             eventImages |-> {[id |-> <<1, 1>>, eventId |-> 1],
                              [id |-> <<1, 2>>, eventId |-> 1],
                              [id |-> <<2, 1>>, eventId |-> 2]},
             bookings |-> {}]
    /\ files = {EventPath(<<1, 1>>), EventPath(<<1, 2>>), EventPath(<<2, 1>>)}
    /\ reqs = [r \in Reqs |-> Idle]
    /\ nextId = [agg |-> 4, event |-> 2, image |-> 4, booking |-> 0, favorite |-> 0]
    /\ cwd \in WorkingDirs

\* a key the sampled body does not have
Undefined == -1

\* the keys a sampled body may have beside its texts and numbers: none of
\* them, one of them, or two of them
UpdateParts ==
    {p \in [touristicSiteId : {Undefined} \cup Named(db.sites, nextId.agg),
            siteAdminId : {Undefined} \cup Named({a.id : a \in db.admins}, nextId.agg),
            guideId : {Undefined} \cup Named({g.id : g \in db.guides}, 1),
            imagesToRemove : {{}, {<<1, 1>>}, {<<1, 1>>, <<2, 1>>}}] :
       Cardinality({f \in DOMAIN p :
                      p[f] # [touristicSiteId |-> Undefined, siteAdminId |-> Undefined,
                              guideId |-> Undefined, imagesToRemove |-> {}][f]}) <= 2}

\* the texts and numbers of the sampled bodies: none, a new title and a
\* price parseFloat reads a prefix of, values every rule rejects, and each
\* key alone with the empty string
UpdateTexts ==
    {[given |-> {}, title |-> "", description |-> "", price |-> "",
      duration |-> "", maxGroupSize |-> ""],
     [given |-> {"title", "price"}, title |-> "u", description |-> "",
      price |-> "3x", duration |-> "", maxGroupSize |-> ""],
     [given |-> {"title", "description", "price", "duration", "maxGroupSize"},
      title |-> " ", description |-> "", price |-> "0", duration |-> "x",
      maxGroupSize |-> "-1"]}
      \cup {[given |-> {f}, title |-> "", description |-> "", price |-> "",
              duration |-> "", maxGroupSize |-> ""] :
                f \in {"title", "description", "price", "duration", "maxGroupSize"}}

UpdateBody(t, p) ==
    [given |-> t.given
                 \cup {f \in {"touristicSiteId", "siteAdminId", "guideId"} :
                          p[f] # Undefined}
                 \cup (IF p.imagesToRemove # {} THEN {"imagesToRemove"} ELSE {}),
     title |-> t.title, description |-> t.description, price |-> t.price,
     duration |-> t.duration, maxGroupSize |-> t.maxGroupSize,
     touristicSiteId |-> IF p.touristicSiteId = Undefined THEN NULL
                         ELSE p.touristicSiteId,
     siteAdminId |-> IF p.siteAdminId = Undefined THEN NULL ELSE p.siteAdminId,
     guideId |-> IF p.guideId = Undefined THEN NULL ELSE p.guideId,
     imagesToRemove |-> p.imagesToRemove]

\* the requests a client sends: a JSON body, or a multipart body with the
\* same fields and sent image files
UpdateRequests ==
    {[multipart |-> FALSE, body |-> UpdateBody(t, p), sent |-> 0] :
         t \in UpdateTexts, p \in UpdateParts}
      \cup {[multipart |-> TRUE, body |-> UpdateBody(t, p), sent |-> 1] :
              t \in {x \in UpdateTexts : x.given = {"title", "price"}},
              p \in {x \in UpdateParts : x.touristicSiteId # NULL
                                           /\ x.siteAdminId = Undefined
                                           /\ x.guideId = Undefined
                                           /\ x.imagesToRemove = {}}}

\* a slot serves one updateEvent request in a behaviour
UpdateEvent(r) ==
    \/ \E id \in 1..(nextId.event + 1), req \in UpdateRequests :
          reqs[r].pc = "idle" /\ UpdateEventFind(r, id, req)
    \/ UpdateEventFindImages(r)
    \/ UpdateEventDeleteImages(r)
    \/ UpdateEventFindSite(r)
    \/ UpdateEventUpdate(r)

\* one updateEvent request on that store
NextUpdate == UpdateEvent(1)

SpecUpdate == InitUpdate /\ [][NextUpdate]_vars

(***************************************************************************)
(* createEvent with a JSON body.  Its validation runs before the try       *)
(* block and calls trim on title, description and touristicSiteId when     *)
(* they are truthy.  express.json hands numbers over as numbers, which     *)
(* have no trim: the call throws, the async handler's promise rejects, and *)
(* Express 4 never looks at it.  No response is sent.                      *)
(***************************************************************************)
\* the keys validated with trim
Trimmed == {"title", "description", "touristicSiteId"}

\* numbers: the keys of the body sent as non-zero JSON numbers
TrimThrows(numbers) == numbers \cap Trimmed # {}

\* arrival of a JSON request: no files; the handler stops without an answer
\* when trim throws, and goes on as for a form body otherwise
CreateEventBeginJson(r, body, numbers) ==
    IF TrimThrows(numbers)
    THEN /\ Free(r)
         /\ Allocated < MaxOps
         /\ reqs' = [reqs EXCEPT ![r] =
                [Idle EXCEPT !.op = "createEvent", !.pc = "rejected"]]
         /\ UNCHANGED <<db, files, nextId, cwd>>
    ELSE CreateEventBegin(r, body, 0)

\* the sampled JSON bodies: strings only, a number for the title, a number
\* for the price, a number for the site
CreateEventJson(r) ==
    \E f \in {x \in EventFields : x.title = "t"},
       s \in Named(db.sites, nextId.agg),
       a \in Named({x.id : x \in db.admins}, nextId.agg),
       numbers \in {{}, {"title"}, {"price"}, {"touristicSiteId"}} :
       CreateEventBeginJson(r, EventBody(f, s, a, NULL), numbers)

\* the sampled updateEvent requests of this specification: JSON bodies that
\* are empty, name a site or name images to remove
LiveRequests ==
    {[multipart |-> FALSE, body |-> UpdateBody(t, p), sent |-> 0] :
         t \in {x \in UpdateTexts : x.given = {}},
         p \in {x \in UpdateParts :
                   /\ x.siteAdminId = Undefined /\ x.guideId = Undefined
                   /\ x.touristicSiteId = Undefined \/ x.imagesToRemove = {}}}

UpdateEventLive(r) ==
    \/ \E id \in 1..(nextId.event + 1), req \in LiveRequests :
          UpdateEventFind(r, id, req)
    \/ UpdateEventFindImages(r)
    \/ UpdateEventDeleteImages(r)
    \/ UpdateEventFindSite(r)
    \/ UpdateEventUpdate(r)

\* the six handlers of the site-admin and event routes, one request at a
\* time
NextLive ==
    \/ CreateSiteAdminWithSite(1)
    \/ UpdateSiteAdmin(1)
    \/ DeleteSiteAdmin(1)
    \/ CreateEvent(1)
    \/ CreateEventJson(1)
    \/ DeleteEvent(1)
    \/ UpdateEventLive(1)

\* a step of the handler in slot r after an await: the store answers every
\* query, so a handler waiting on one is resumed
Resume(r) == ~Free(r) /\ NextLive /\ reqs'[r] # reqs[r]

SpecLive == Init /\ [][NextLive]_vars /\ \A r \in Reqs : WF_vars(Resume(r))

(***************************************************************************)
(* Properties.                                                             *)
(***************************************************************************)
\* slot r answers in this step
Answers(r) == reqs[r].pc # "done" /\ reqs'[r].pc = "done"

\* slot r takes a step of handler op (a step that leaves the slot as it was
\* is a step of another slot or of no slot)
Steps(r, op) == reqs'[r] # reqs[r] /\ reqs'[r].op = op

UserIds(d) == {u.id : u \in d.users}

AdminRowIds(d) == {a.id : a \in d.admins}

EventRowIds(d) == {e.id : e \in d.events}

\* no row references a parent row that does not exist
Integrity(d) ==
    /\ \A a \in d.admins : a.userId \in UserIds(d) /\ a.siteId \in d.sites
    /\ \A g \in d.guides : g.userId \in UserIds(d)
    /\ \A i \in d.siteImages : i.siteId \in d.sites
    /\ \A f \in d.favorites : f.userId \in UserIds(d) /\ f.siteId \in d.sites
    /\ \A e \in d.events :
          /\ e.siteId \in d.sites
          /\ e.adminId # NULL => e.adminId \in AdminRowIds(d)
          /\ e.guideId # NULL => e.guideId \in {g.id : g \in d.guides}
    /\ \A i \in d.eventImages : i.eventId \in EventRowIds(d)
    /\ \A b \in d.bookings :
          /\ b.eventId \in EventRowIds(d)
          /\ b.touristId \in UserIds(d)
          /\ b.guideId \in {g.id : g \in d.guides}

(* C1: a createSiteAdminWithSite request either creates its User with role
   SITE_ADMIN, its TouristicSite, the TouristicSiteAdmin linking the two and
   one TouristicSiteImage per uploaded file, all in the step that answers
   201, or leaves every table as it was: no step of the request, the
   transaction failing at any statement included, leaves part of them. *)
C1_CreatedAll(r) ==
    LET q == reqs[r]
        n == nextId.agg + 1
        images == db'.siteImages \ db.siteImages
    IN  /\ n \notin UserIds(db) /\ n \notin db.sites /\ n \notin AdminRowIds(db)
        /\ db'.users = db.users \cup {[id |-> n, email |-> q.email, role |-> "SITE_ADMIN"]}
        /\ db'.sites = db.sites \cup {n}
        /\ db'.admins = db.admins \cup {[id |-> n, userId |-> n, siteId |-> n]}
        /\ db.siteImages \subseteq db'.siteImages
        /\ Cardinality(images) = q.count
        /\ \A i \in images : i.siteId = n
        /\ db' = [db EXCEPT !.users = db'.users, !.sites = db'.sites,
                            !.admins = db'.admins, !.siteImages = db'.siteImages]

C1_AllOrNothing ==
    [][\A r \in Reqs :
          Steps(r, "createSite") =>
              IF reqs'[r].status = 201 THEN C1_CreatedAll(r) ELSE db' = db]_vars

\* the transaction failed under the request and the request answered 500
C1_Witness ==
    \E r \in Reqs :
        /\ reqs[r].op = "createSite"
        /\ reqs[r].status = 500
        /\ reqs[r].err = "fault"
        /\ "a@x" \notin {u.email : u \in db.users}

(* C2: deleteSiteAdmin on an admin that owns an event with a PENDING or
   CONFIRMED booking, whichever site the event is attached to, answers 400
   at its guard and leaves every table as it was. *)
C2_OwnsActivelyBookedEvent(d, id) ==
    \E e \in d.events :
        /\ e.adminId = id
        /\ \E b \in d.bookings :
              b.eventId = e.id /\ b.status \in {"PENDING", "CONFIRMED"}

C2_Claim ==
    [][\A r \in {x \in Reqs : Steps(x, "deleteAdmin")}, id \in 1..(3 + MaxOps) :
          (/\ DeleteSiteAdminFind(r, id)
           /\ id \in AdminRowIds(db)
           /\ C2_OwnsActivelyBookedEvent(db, id))
          => reqs'[r].status = 400 /\ db' = db]_vars

(* C3: deleteSiteAdmin on an existing admin whose site's events have
   bookings, all of them CANCELED or COMPLETED, is not rejected by the
   guard, and its transaction, the store not failing under it, answers 200
   and leaves no row that references the site, the admin or the user. *)
C3_OnlyInactiveBookings(d, siteId) ==
    LET bs == {b \in d.bookings :
                 \E e \in d.events : e.siteId = siteId /\ b.eventId = e.id}
    IN  bs # {} /\ \A b \in bs : b.status \in {"CANCELED", "COMPLETED"}

C3_NoReference(d, id, siteId, userId) ==
    /\ id \notin AdminRowIds(d) /\ siteId \notin d.sites /\ userId \notin UserIds(d)
    /\ \A e \in d.events : e.siteId # siteId /\ e.adminId # id
    /\ \A i \in d.siteImages : i.siteId # siteId
    /\ \A f \in d.favorites : f.siteId # siteId /\ f.userId # userId
    /\ \A b \in d.bookings : b.touristId # userId

C3_Claim ==
    [][\A r \in {x \in Reqs : Steps(x, "deleteAdmin")}, id \in 1..(3 + MaxOps) :
          /\ (/\ DeleteSiteAdminFind(r, id)
              /\ \E a \in db.admins : a.id = id /\ C3_OnlyInactiveBookings(db, a.siteId))
             => reqs'[r].pc = "tx"
          /\ (/\ DeleteSiteAdminTx(r, 0)
              /\ reqs[r].id = id
              /\ C3_OnlyInactiveBookings(db, reqs[r].site))
             => /\ reqs'[r].status = 200
                /\ C3_NoReference(db', id, reqs[r].site, reqs[r].user)]_vars

(* C4: the six deletions of deleteSiteAdmin are one unit: the step that runs
   them either answers 200 with all six applied (the admin's events, the
   site's images, the site's favorites, the admin row, the site row and the
   user row are gone) or answers 500 with every table as it was. *)
C4_AllSix(r) ==
    LET q == reqs[r] IN
    db' = [db EXCEPT
             !.events = {e \in @ : e.adminId # q.id},
             !.siteImages = {i \in @ : i.siteId # q.site},
             !.favorites = {f \in @ : f.siteId # q.site /\ f.userId # q.user},
             !.admins = {a \in @ : a.id # q.id},
             !.sites = @ \ {q.site},
             !.users = {u \in @ : u.id # q.user}]

C4_Atomic ==
    [][\A r \in Reqs :
          (At(r, "deleteAdmin", "tx") /\ Answers(r)) =>
              \/ reqs'[r].status = 200 /\ C4_AllSix(r) /\ db' # db
              \/ reqs'[r].status = 500 /\ db' = db]_vars

\* a transaction failed on a constraint after its first statements had run
C4_Witness ==
    \E r \in Reqs :
        /\ reqs[r].op = "deleteAdmin"
        /\ reqs[r].status = 500
        /\ reqs[r].err = "P2003"
        /\ \E a \in db.admins :
              /\ a.id = reqs[r].id
              /\ EventDeleteManyByAdmin(db, a.id).ok
              /\ \E e \in db.events : e.adminId = a.id
              /\ \E i \in db.siteImages : i.siteId = a.siteId

(* C5: the transaction of deleteSiteAdmin deletes in the order events owned
   by the admin, the site's images, the site's favorites, the admin row, the
   site row, the user row: each statement that runs removes exactly its own
   rows (the user row takes the user's remaining favorites with it, by the
   store's cascade), and in the store left by each statement no row
   references a parent that does not exist. *)
C5_Trace(d, id, siteId, userId, fault) ==
    LET rs == DeleteSiteAdminStmts(d, id, siteId, userId, fault)
        k  == FirstThrown(rs)
        m  == IF k = 0 THEN Len(rs) ELSE k - 1
    IN  <<d>> \o [i \in 1..m |-> rs[i].db]

C5_Effect(k, a, id, siteId, userId) ==
    CASE k = 1 -> [a EXCEPT !.events = {e \in @ : e.adminId # id}]
      [] k = 2 -> [a EXCEPT !.siteImages = {i \in @ : i.siteId # siteId}]
      [] k = 3 -> [a EXCEPT !.favorites = {f \in @ : f.siteId # siteId}]
      [] k = 4 -> [a EXCEPT !.admins = {x \in @ : x.id # id}]
      [] k = 5 -> [a EXCEPT !.sites = @ \ {siteId}]
      [] k = 6 -> [a EXCEPT !.users = {u \in @ : u.id # userId},
                            !.favorites = {f \in @ : f.userId # userId}]

C5_Order ==
    [][\A r \in {x \in Reqs : Steps(x, "deleteAdmin")}, f \in 0..6 :
          DeleteSiteAdminTx(r, f) =>
              LET q == reqs[r]
                  t == C5_Trace(db, q.id, q.site, q.user, f)
              IN  /\ \A i \in 1..Len(t) : Integrity(t[i])
                  /\ \A k \in 1..(Len(t) - 1) :
                        t[k + 1] = C5_Effect(k, t[k], q.id, q.site, q.user)]_vars

\* the guard has passed for an admin with an event, an image and a favorite,
\* and the six deletions are about to run to the end
C5_Witness ==
    \E r \in Reqs :
        /\ At(r, "deleteAdmin", "tx")
        /\ \E e \in db.events : e.adminId = reqs[r].id
        /\ \E i \in db.siteImages : i.siteId = reqs[r].site
        /\ \E f \in db.favorites : f.siteId = reqs[r].site
        /\ Len(C5_Trace(db, reqs[r].id, reqs[r].site, reqs[r].user, 0)) = 7

(* C6: deleteEvent on an existing event with at least one PENDING or
   CONFIRMED booking answers the conflict status with the number of those
   bookings, and the event, its images, its bookings and the stored files
   stay as they were. *)
C6_Active(d, id) ==
    {b \in d.bookings : b.eventId = id /\ (b.status = "PENDING" \/ b.status = "CONFIRMED")}

C6_Refused ==
    [][\A r \in {x \in Reqs : Steps(x, "deleteEvent")}, id \in 1..(MaxOps + 1) :
          (/\ DeleteEventFind(r, id)
           /\ id \in EventRowIds(db)
           /\ C6_Active(db, id) # {})
          => /\ reqs'[r].pc = "done"
             /\ reqs'[r].status = 400
             /\ reqs'[r].count = Cardinality(C6_Active(db, id))
             /\ db' = db
             /\ files' = files]_vars

\* a request refused with its count, the event and a CONFIRMED booking of it
\* still stored
C6_Witness ==
    \E r \in Reqs :
        /\ reqs[r].op = "deleteEvent"
        /\ reqs[r].status = 400
        /\ reqs[r].count >= 1
        /\ reqs[r].id \in EventRowIds(db)
        /\ \E b \in db.bookings : b.eventId = reqs[r].id /\ b.status = "CONFIRMED"

(* C7: deleteEvent on an existing event with no PENDING or CONFIRMED booking
   deletes the files of its images and then the event, whose image and
   booking rows go with it: the request answers 200 and afterwards the
   event, its image rows, its booking rows and its files are gone, also
   when the event has images or COMPLETED or CANCELED bookings. *)
C7_Gone(d, fs, id) ==
    /\ id \notin EventRowIds(d)
    /\ \A i \in d.eventImages : i.eventId # id
    /\ \A b \in d.bookings : b.eventId # id
    /\ \A i \in db.eventImages : i.eventId = id => EventPath(i.id) \notin fs

C7_Claim ==
    [][\A r \in {x \in Reqs : Steps(x, "deleteEvent")}, id \in 1..(MaxOps + 1) :
          /\ (/\ DeleteEventFind(r, id)
              /\ id \in EventRowIds(db)
              /\ C6_Active(db, id) = {})
             => reqs'[r].pc = "delete"
          /\ (/\ DeleteEventDelete(r)
              /\ reqs[r].id = id
              /\ id \in EventRowIds(db)
              /\ C6_Active(db, id) = {})
             => reqs'[r].status = 200 /\ C7_Gone(db', files', id)]_vars

(* C8: deleting what is already deleted changes nothing: deleteSiteAdmin on
   an id with no admin row, and deleteEvent on an id with no event row,
   answer 404 and leave the store and the files as they were, and an id
   once deleted is never stored again (an event id not stored is deleted
   unless a createEvent in flight holds it). *)
C8_Idempotent ==
    [][/\ \A r \in {x \in Reqs : Steps(x, "deleteAdmin")}, id \in 1..(3 + MaxOps) :
             (DeleteSiteAdminFind(r, id) /\ id \notin AdminRowIds(db))
             => reqs'[r].status = 404 /\ db' = db /\ files' = files
       /\ \A r \in {x \in Reqs : Steps(x, "deleteEvent")}, id \in 1..(MaxOps + 1) :
             (DeleteEventFind(r, id) /\ id \notin EventRowIds(db))
             => reqs'[r].status = 404 /\ db' = db /\ files' = files
       /\ \A id \in AdminIds : id \notin AdminRowIds(db) => id \notin AdminRowIds(db')
       /\ \A id \in EventIds :
             (/\ id \notin EventRowIds(db)
              /\ \A r \in Reqs : ~(reqs[r].op = "createEvent" /\ reqs[r].n = id))
             => id \notin EventRowIds(db')]_vars

\* a delete of an admin that had been stored and deleted answered 404
C8_Witness ==
    \E r \in Reqs :
        /\ reqs[r].op = "deleteAdmin"
        /\ reqs[r].status = 404
        /\ reqs[r].id \in AdminIds
        /\ reqs[r].id \notin AdminRowIds(db)

(* C9: of two deleteSiteAdmin requests on the same id in flight together,
   whatever the interleaving, at most one answers 200, and when one has
   answered 200 the other answers 404 (unless the store itself failed under
   it). *)
C9_Claim ==
    \A r1, r2 \in Reqs :
        (/\ r1 # r2
         /\ reqs[r1].op = "deleteAdmin" /\ reqs[r2].op = "deleteAdmin"
         /\ reqs[r1].pc = "done" /\ reqs[r2].pc = "done"
         /\ reqs[r1].id = reqs[r2].id
         /\ reqs[r1].status = 200)
        => reqs[r2].status = 404 \/ reqs[r2].err = "fault"

(* C10: createSiteAdminWithSite with name, email, password, siteName or
   siteLocation missing answers 400 at once and writes nothing. *)
C10_AnyMissing(b) ==
    \E f \in {"name", "email", "password", "siteName", "siteLocation"} : b[f] = ""

C10_Rejected ==
    [][\A r \in {x \in Reqs : Steps(x, "createSite")},
          b \in {x \in SiteBodies : C10_AnyMissing(x)}, nf \in 0..MaxOps :
          CreateSiteBegin(r, b, nf)
          => /\ reqs'[r].pc = "done"
             /\ reqs'[r].status = 400
             /\ db' = db
             /\ nextId' = nextId]_vars

\* a request answered 400 by the required-fields check
C10_Witness ==
    \E r \in Reqs :
        /\ reqs[r].op = "createSite"
        /\ reqs[r].status = 400
        /\ reqs[r].pc = "done"

(* C11: createSiteAdminWithSite with an email that belongs to a User answers
   409 and writes nothing, whenever the email is stored at the time the
   request's writes would be applied: at its existence check, and also at
   its transaction when another request stored the email in between (the
   store itself not failing). *)
C11_Claim ==
    [][\A r \in {x \in Reqs : Steps(x, "createSite")} :
          /\ \A b \in {x \in SiteBodies : ~C10_AnyMissing(x)}, nf \in 0..MaxOps :
                (/\ CreateSiteBegin(r, b, nf)
                 /\ b.email \in {u.email : u \in db.users})
                => reqs'[r].status = 409 /\ db' = db
          /\ (/\ CreateSiteTx(r, 0)
              /\ reqs[r].email \in {u.email : u \in db.users})
             => reqs'[r].status = 409 /\ db' = db]_vars

\* the bodies of the createEvent requests drawn in the current state
C12_Bodies ==
    {EventBody(f, s, a, g) :
        f \in EventFields, s \in Named(db.sites, nextId.agg),
        a \in Named(AdminRowIds(db), nextId.agg),
        g \in Named({x.id : x \in db.guides}, 1)}

\* the files a createEvent request arriving now has uploaded
C12_Uploaded(nf) == {EventPath(f) : f \in FileNames(nextId.event + 1, nf)}

(* C12: createEvent with neither siteAdminId nor guideId answers 400, its
   error list holds 'Either site admin ID or guide ID is required', no
   Event or EventImage row is created, and none of the files uploaded with
   the request is left in storage. *)
C12_NoOwner ==
    [][\A r \in {x \in Reqs : Steps(x, "createEvent")} :
          \A f \in EventFields, s \in Named(db.sites, nextId.agg), nf \in FileCounts :
             CreateEventBegin(r, EventBody(f, s, NULL, NULL), nf)
             => /\ reqs'[r].pc = "done"
                /\ reqs'[r].status = 400
                /\ "Either site admin ID or guide ID is required" \in reqs'[r].errors
                /\ db' = db
                /\ C12_Uploaded(nf) \cap files' = {}
                /\ files' = files]_vars

\* a request answered 400 with the rule among its errors, and only that rule
C12_Witness ==
    \E r \in Reqs :
        /\ reqs[r].op = "createEvent"
        /\ reqs[r].status = 400
        /\ reqs[r].errors = {"Either site admin ID or guide ID is required"}

(* C13: createEvent's validation is collected: the error list holds one
   entry for each violated rule among title non-empty after trim,
   description non-empty after trim, price numeric and > 0, duration
   integer > 0, maxGroupSize integer > 0, touristicSiteId non-empty, one of
   siteAdminId and guideId given, and none for a satisfied rule; the
   request is rejected with 400 exactly when the list is not empty. *)
C13_Blank(s) == s = "" \/ s = " "

\* the sampled strings that are numbers, with their values in tenths
C13_Number(s) ==
    CASE s = "10"  -> 100
      [] s = "2.5" -> 25
      [] s = "0"   -> 0
      [] s = "-1"  -> -10
      [] OTHER     -> -1

C13_Numeric(s) == s \in {"10", "2.5", "0", "-1"}

C13_Integer(s) == s \in {"10", "0", "-1"}

C13_Violated(b) ==
    (IF C13_Blank(b.title) THEN {"Title is required"} ELSE {})
      \cup (IF C13_Blank(b.description) THEN {"Description is required"} ELSE {})
      \cup (IF ~(C13_Numeric(b.price) /\ C13_Number(b.price) > 0)
            THEN {"Valid price is required"} ELSE {})
      \cup (IF ~(C13_Integer(b.duration) /\ C13_Number(b.duration) > 0)
            THEN {"Valid duration is required"} ELSE {})
      \cup (IF ~(C13_Integer(b.maxGroupSize) /\ C13_Number(b.maxGroupSize) > 0)
            THEN {"Valid max group size is required"} ELSE {})
      \cup (IF b.touristicSiteId = NULL THEN {"Touristic site ID is required"} ELSE {})
      \cup (IF b.siteAdminId = NULL /\ b.guideId = NULL
            THEN {"Either site admin ID or guide ID is required"} ELSE {})

C13_Claim ==
    [][\A r \in {x \in Reqs : Steps(x, "createEvent")} :
          \A b \in C12_Bodies, nf \in FileCounts :
             CreateEventBegin(r, b, nf)
             => /\ (reqs'[r].status = 400) <=> (C13_Violated(b) # {})
                /\ reqs'[r].status = 400 => reqs'[r].errors = C13_Violated(b)]_vars

(* C14: createEvent with valid fields answers 404, creates nothing and
   leaves none of the request's files in storage when touristicSiteId names
   no site, when a given siteAdminId names no admin, and when a given
   guideId names no guide; each check rejects on its own. *)
C14_Rejected(r, uploaded) ==
    /\ reqs'[r].pc = "done"
    /\ reqs'[r].status = 404
    /\ db' = db
    /\ uploaded \cap files' = {}

C14_NotFound ==
    [][\A r \in {x \in Reqs : Steps(x, "createEvent")} :
          /\ \A f \in EventFields, s \in Named(db.sites, nextId.agg) \ db.sites,
                a \in Named(AdminRowIds(db), nextId.agg),
                g \in Named({x.id : x \in db.guides}, 1), nf \in FileCounts :
                (/\ C13_Violated(EventBody(f, s, a, g)) = {}
                 /\ CreateEventBegin(r, EventBody(f, s, a, g), nf))
                => C14_Rejected(r, C12_Uploaded(nf))
          /\ (/\ At(r, "createEvent", "findAdmin")
              /\ reqs[r].admin \notin AdminRowIds(db))
             => C14_Rejected(r, {EventPath(f) : f \in reqs[r].uploads})
          /\ (/\ At(r, "createEvent", "findGuide")
              /\ reqs[r].guide \notin {g.id : g \in db.guides})
             => C14_Rejected(r, {EventPath(f) : f \in reqs[r].uploads})]_vars

\* the guide's look-up alone rejected a request
C14_Witness ==
    \E r \in Reqs :
        /\ reqs[r].op = "createEvent"
        /\ reqs[r].status = 404
        /\ reqs[r].err = "Guide not found"

(* C15: every Event row createEvent stores references one existing
   TouristicSite and, when stored, at least one of an existing
   TouristicSiteAdmin and an existing TouristGuide, with one EventImage row
   per uploaded file; when a request in flight together with it has deleted
   the site or the admin since the look-ups, the insert fails and nothing
   is stored. *)
C15_Stored(r) ==
    LET new    == db'.events \ db.events
        images == db'.eventImages \ db.eventImages
    IN  /\ Cardinality(new) = 1
        /\ \A e \in new :
              /\ e.id \notin EventRowIds(db)
              /\ e.siteId \in db.sites /\ e.siteId \in db'.sites
              /\ e.adminId # NULL \/ e.guideId # NULL
              /\ e.adminId # NULL => e.adminId \in AdminRowIds(db')
              /\ e.guideId # NULL => e.guideId \in {g.id : g \in db'.guides}
              /\ \A i \in images : i.eventId = e.id
        /\ Cardinality(images) = Cardinality(reqs[r].uploads)
        /\ db.events \subseteq db'.events /\ db.eventImages \subseteq db'.eventImages
        /\ db' = [db EXCEPT !.events = db'.events, !.eventImages = db'.eventImages]

C15_Created ==
    [][\A r \in {x \in Reqs : Steps(x, "createEvent")} :
          At(r, "createEvent", "create") =>
              /\ reqs'[r].pc = "done"
              /\ IF reqs'[r].status = 201 THEN C15_Stored(r) ELSE db' = db
              /\ Integrity(db) => Integrity(db')]_vars

\* the site was deleted after the look-ups of a request, and its insert failed
C15_Witness ==
    \E r \in Reqs :
        /\ reqs[r].op = "createEvent"
        /\ reqs[r].status = 500
        /\ reqs[r].err = "P2025"
        /\ db.events = {}
        /\ 3 \notin db.sites

\* slot r holds an updateEvent request that has not answered yet
C16_InFlight(r) == reqs[r].op = "updateEvent" /\ reqs[r].pc # "done"

\* the EventImage rows a request may remove: named by its list, of its event
C16_Listed(r) ==
    {i \in db.eventImages :
        i.id \in reqs[r].body.imagesToRemove /\ i.eventId = reqs[r].id}

(* C16: every step of an updateEvent request on event E removes no EventImage
   row and no stored file other than those of rows whose id is in the
   request's removal list and whose eventId is E; the deleteMany step removes
   exactly those rows; rows and files of other events stay as they were. *)
C16_OnlyListed ==
    [][\A r \in {x \in Reqs : Steps(x, "updateEvent")} :
          IF C16_InFlight(r)
          THEN /\ db.eventImages \ db'.eventImages \subseteq C16_Listed(r)
               /\ files \ files' \subseteq {EventPath(i.id) : i \in C16_Listed(r)}
               /\ UpdateEventDeleteImages(r) =>
                      db'.eventImages = db.eventImages \ C16_Listed(r)
               /\ \A i \in db.eventImages :
                      i.eventId # reqs[r].id =>
                          /\ i \in db'.eventImages
                          /\ EventPath(i.id) \in files => EventPath(i.id) \in files'
          ELSE db' = db /\ files' = files]_vars

\* a request on event 1 whose list names an image of event 1 and the image of
\* event 2 has removed the first and kept the second
C16_Witness ==
    \E r \in Reqs :
        /\ C16_InFlight(r)
        /\ reqs[r].pc \in {"findSite", "update"}
        /\ reqs[r].id = 1
        /\ reqs[r].body.imagesToRemove = {<<1, 1>>, <<2, 1>>}
        /\ [id |-> <<1, 1>>, eventId |-> 1] \notin db.eventImages
        /\ [id |-> <<2, 1>>, eventId |-> 2] \in db.eventImages
        /\ EventPath(<<1, 1>>) \notin files
        /\ EventPath(<<2, 1>>) \in files

(* C17: the writes of an updateEvent request are one atomic unit: when the
   final event.update fails and the request answers 500, the EventImage rows
   the request found for removal are still in the store. *)
C17_Claim ==
    [][\A r \in {x \in Reqs : Steps(x, "updateEvent")} :
          (C16_InFlight(r) /\ UpdateEventUpdate(r) /\ reqs'[r].status = 500) =>
              reqs[r].images \subseteq db'.eventImages]_vars

(* C18: when the touristicSiteId of an updateEvent request names no site, the
   request answers 404 and nothing was written before the check: the step
   that answers writes nothing, and the EventImage rows the request's list
   names and their stored files are as they were. *)
C18_Claim ==
    [][\A r \in {x \in Reqs : Steps(x, "updateEvent")} :
          (/\ C16_InFlight(r)
           /\ reqs[r].body.touristicSiteId \notin db.sites
           /\ UpdateEventFindSite(r)) =>
              /\ reqs'[r].status = 404
              /\ db' = db /\ files' = files
              /\ reqs[r].images \subseteq db'.eventImages
              /\ \A i \in reqs[r].images : EventPath(i.id) \in files']_vars

\* the row of event id in store d
C19_Event(d, id) == CHOOSE e \in d.events : e.id = id

\* the keys of the body and the columns of the row they write
C19_Columns ==
    {<<"title", "title">>, <<"description", "description">>, <<"price", "price">>,
     <<"duration", "duration">>, <<"maxGroupSize", "maxGroupSize">>,
     <<"touristicSiteId", "siteId">>, <<"siteAdminId", "adminId">>,
     <<"guideId", "guideId">>}

\* the step of slot r kept every column whose key the body does not have,
\* and every other event
C19_Frame(r) ==
    /\ \A c \in C19_Columns :
          c[1] \notin reqs[r].body.given =>
              C19_Event(db', reqs[r].id)[c[2]] = C19_Event(db, reqs[r].id)[c[2]]
    /\ \A e \in db.events : e.id # reqs[r].id => e \in db'.events

(* C19: the step in which an updateEvent request answers 200 keeps every
   column of the event whose key the request does not have and every other
   event, keeps every EventImage row, and adds one EventImage row of the event
   per image file the client sent; no step of the request removes an
   EventImage row that its removal list does not name. *)
C19_Claim ==
    [][\A r \in {x \in Reqs : Steps(x, "updateEvent")} :
          C16_InFlight(r) =>
              /\ \A i \in db.eventImages :
                    i.id \notin reqs[r].body.imagesToRemove => i \in db'.eventImages
              /\ reqs'[r].status = 200 =>
                    /\ C19_Frame(r)
                    /\ db.eventImages \subseteq db'.eventImages
                    /\ \A i \in db'.eventImages \ db.eventImages :
                          i.eventId = reqs[r].id
                    /\ Cardinality(db'.eventImages \ db.eventImages)
                          = reqs[r].count]_vars

\* the relation column col of the event after the step, against the key of
\* the body that writes it
C20_Relation(r, key, col) ==
    LET b      == reqs[r].body
        before == C19_Event(db, reqs[r].id)[col]
        after  == C19_Event(db', reqs[r].id)[col]
    IN  IF key \notin b.given THEN after = before
        ELSE IF b[key] = NULL THEN after = NULL
        ELSE after = b[key]

(* C20: in the step in which an updateEvent request answers 200, for
   siteAdminId and guideId each on its own: a key the body has with a falsy
   value leaves the event without that relation, a key it has with a value
   leaves the event related to that id, and a key it does not have leaves the
   relation as it was. *)
C20_Relations ==
    [][\A r \in {x \in Reqs : Steps(x, "updateEvent")} :
          (C16_InFlight(r) /\ reqs'[r].status = 200) =>
              /\ C20_Relation(r, "siteAdminId", "adminId")
              /\ C20_Relation(r, "guideId", "guideId")]_vars

\* a request on event 1, which had admin 3 and no guide, has answered 200 and
\* left it with no admin and guide 1
C20_Witness ==
    \E r \in Reqs :
        /\ reqs[r].op = "updateEvent"
        /\ reqs[r].status = 200
        /\ reqs[r].id = 1
        /\ C19_Event(db, 1).adminId = NULL
        /\ C19_Event(db, 1).guideId = 1

\* the keys the claim calls required, with the rule of each
C21_Rules ==
    {<<"title", "Title cannot be empty">>,
     <<"description", "Description cannot be empty">>,
     <<"price", "Valid price is required">>,
     <<"duration", "Valid duration is required">>,
     <<"maxGroupSize", "Valid max group size is required">>}

\* the body has a required key whose value is the empty string
C21_Empty(b) ==
    \/ \E c \in C21_Rules : c[1] \in b.given /\ b[c[1]] = ""
    \/ "touristicSiteId" \in b.given /\ b.touristicSiteId = NULL

(* C21: an updateEvent request on an existing event whose JSON body has a
   required key (title, description, price, duration, maxGroupSize,
   touristicSiteId) with the empty string answers 400 and changes neither the
   store nor the files; no rule is reported for a key the body does not
   have. *)
C21_Claim ==
    [][\A r \in {x \in Reqs : Steps(x, "updateEvent")} :
          \A id \in EventRowIds(db), req \in UpdateRequests :
              (~req.multipart /\ UpdateEventFind(r, id, req)) =>
                  /\ \A c \in C21_Rules :
                        c[1] \notin req.body.given => c[2] \notin reqs'[r].errors
                  /\ C21_Empty(req.body) =>
                        /\ reqs'[r].status = 400
                        /\ db' = db
                        /\ files' = files]_vars

\* the files a createSiteAdminWithSite request arriving now has uploaded
C22_Uploaded(nf) == {SitePath(f) : f \in FileNames(nextId.agg + 1, nf)}

(* C22: when a createSiteAdminWithSite request is answered 400 or 409 by its
   checks, or a createEvent request 400 or 404 by its, none of the files
   uploaded with the request is in storage after the step that answers. *)
C22_Claim ==
    [][\A r \in {x \in Reqs : Steps(x, "createSite") \/ Steps(x, "createEvent")} :
          /\ \A b \in SiteBodies, nf \in FileCounts :
                (CreateSiteBegin(r, b, nf) /\ reqs'[r].status \in {400, 409}) =>
                    C22_Uploaded(nf) \cap files' = {}
          /\ \A b \in C12_Bodies, nf \in FileCounts :
                (CreateEventBegin(r, b, nf) /\ reqs'[r].status \in {400, 404}) =>
                    C12_Uploaded(nf) \cap files' = {}
          /\ (reqs[r].op = "createEvent" /\ reqs'[r].status = 404) =>
                {EventPath(f) : f \in reqs[r].uploads} \cap files' = {}]_vars

(* C23: whenever no request is in flight, every EventImage row has its file
   in the upload directory, and every file of the upload directory belongs
   to an EventImage row: the file of a deleted image is gone. *)
C23_Claim ==
    (\A r \in Reqs : Free(r)) =>
        /\ \A i \in db.eventImages : EventPath(i.id) \in files
        /\ \A f \in files :
              f.dir = "uploads/events" => \E i \in db.eventImages : i.id = f.base

\* the handlers that write User.email
C24_Writers == {"registerUser", "createSite", "updateUser", "updateAdmin"}

\* no two User rows have the same email
C24_Unique ==
    \A u, v \in db.users : u.id # v.id => u.email # v.email

(* C24: in every reachable state no two User rows have the same email,
   whatever the interleaving of registerUser, createSiteAdminWithSite,
   updateUser and updateSiteAdmin requests; and a step in which one of them
   answers anything but 200 or 201 leaves every table as it was. *)
C24_UniqueEmail ==
    /\ []C24_Unique
    /\ [][\A r \in {x \in Reqs : reqs'[x] # reqs[x] /\ reqs'[x].op \in C24_Writers} :
            (Answers(r) /\ reqs'[r].status \notin {200, 201}) => db' = db]_vars

\* an updateSiteAdmin request found its new email free, another request
\* stored that email meanwhile, and the update's transaction failed on it
C24_Witness ==
    \E r \in Reqs :
        /\ reqs[r].op = "updateAdmin"
        /\ reqs[r].status = 500
        /\ reqs[r].err = "P2002"
        /\ \E u \in db.users : u.email = "a@x"

(* C25: deleteUser on an existing user answers 204 and leaves neither the
   user nor a TouristGuide or TouristicSiteAdmin row of that user; on a
   missing user it answers 404 and changes nothing. *)
C25_Claim ==
    [][\A r \in {x \in Reqs : Steps(x, "deleteUser")}, id \in AllUserIds :
          DeleteUser(r, id) =>
              IF id \in UserIds(db)
              THEN /\ reqs'[r].status = 204
                   /\ id \notin UserIds(db')
                   /\ \A g \in db'.guides : g.userId # id
                   /\ \A a \in db'.admins : a.userId # id
              ELSE reqs'[r].status = 404 /\ db' = db]_vars

(* C26: every request handled by createSiteAdminWithSite, updateSiteAdmin,
   deleteSiteAdmin, createEvent, updateEvent or deleteEvent is eventually
   answered: a slot whose handler has started reaches the position where
   its one response was sent. *)
C26_Claim ==
    \A r \in Reqs : (reqs[r].pc \notin {"idle", "done"}) ~> (reqs[r].pc = "done")

(* C27: when deleteSiteAdmin has found the admin and its booking guard has
   passed, and the store fails no statement on its own, the transaction
   commits: the answer is 200 and the admin, its site and its user are
   gone. *)
C27_Claim ==
    [][\A r \in {x \in Reqs : Steps(x, "deleteAdmin")} :
          DeleteSiteAdminTx(r, 0) =>
              /\ reqs'[r].status = 200
              /\ reqs[r].id \notin AdminRowIds(db')
              /\ reqs[r].site \notin db'.sites
              /\ reqs[r].user \notin UserIds(db')]_vars

(* C28: every stored Event references a TouristicSiteAdmin or a
   TouristGuide: no event has both siteAdminId and guideId empty. *)
C28_Claim ==
    \A e \in db.events : e.adminId # NULL \/ e.guideId # NULL

(* C29: referential integrity holds in every reachable state, and a request
   the store refuses for a reference (P2003, P2025) leaves the store as the
   request found it: the step that answers writes nothing, and the rows an
   earlier step of the request read are still stored. *)
C29_Claim ==
    /\ []Integrity(db)
    /\ [][\A r \in Reqs :
             (Answers(r) /\ reqs'[r].err \in {"P2003", "P2025"}) =>
                 db' = db /\ reqs[r].images \subseteq db'.eventImages]_vars

(* C30: the User a TouristicSiteAdmin row references has the role
   SITE_ADMIN. *)
C30_Claim ==
    \A a \in db.admins :
        \A u \in db.users : u.id = a.userId => u.role = "SITE_ADMIN"
====
